---- MODULE Spec2Model ----
(***************************************************************************)
(* tallystick: the pairwise (Condorcet / Schulze) tallies.                  *)
(*                                                                         *)
(* The state is one CondorcetTally (src/src/condorcet.rs), which a          *)
(* SchulzeTally (src/src/schulze.rs) wraps together with its variant.       *)
(* Every public method is one action; the value it returns is kept in       *)
(* `ret` / `result`, and the call itself in `call`.                         *)
(*                                                                         *)
(* The count type C is generic in the source (u64 by default, i64 or f64   *)
(* allowed): counts are modelled as integers, weights drawn from Weights.   *)
(* The iteration order of a hashbrown::HashMap is unspecified: every loop   *)
(* over `candidates` takes its order `ord` from Orders(DOMAIN candidates).  *)
(***************************************************************************)
EXTENDS Integers, Sequences, FiniteSets, TLC

\* ------------------------------------------------------------- bounds
Cands == {"A", "B"}             \* the candidate values a caller may register
VoteCands == Cands \cup {"Z"}   \* the candidate values a ballot may name
Weights == {-1, 0, 1}           \* the weights a caller may pass
MaxVoteLen == 2                 \* longest ballot
MaxRank == 1                    \* largest explicit rank of a ranked ballot
MaxBallots == 2                 \* accepted ballots per run
MaxListLen == 2                 \* longest list given to with_candidates / add_candidates
MaxRegs == 1                    \* add_candidate / add_candidates calls per run
Cands3 == {"A", "B", "C"}       \* the candidates of the three-candidate specifications
MaxWinners == 3                 \* largest num_winners
MaxCount == 2                   \* largest count handed to CountedCandidates::into_ranked
MaxRankBallots == 3             \* accepted ballots per run of a three-candidate tally
MaxQueryBallots == 1            \* the same, where the tally keeps the iteration order of its maps
MaxPathBallots == 3             \* accepted ballots per run of a four-candidate SchulzeTally
MaxStvBallots == 3              \* ballots added to an STV tally per run
MaxIrvBallots == 2              \* ballots added to an IRV tally per run
MaxIrvVoteLen == 3              \* longest ballot given to an IRV tally

VARIABLES
    candidates,     \* CondorcetTally.candidates: HashMap<T, usize>
    running_total,  \* CondorcetTally.running_total: HashMap<(usize, usize), C>
    check_votes,    \* CondorcetTally.check_votes
    variant,        \* SchulzeTally.variant ("None": a bare CondorcetTally)
    ctor,           \* the constructor that built the tally
    ballots,        \* number of ballots accepted so far (bounds the run)
    regs,           \* number of add_candidate(s) calls so far (bounds the run)
    call,           \* the method call that has just returned, with its arguments; "idle"
                    \* once the caller has taken the returned value
    ret,            \* its status: Ok, an error, Unit, Value or Panic
    result,         \* the value a query returned
    num_winners,    \* CondorcetTally.num_winners
    count_type,     \* the count type C, as its Numeric answers: fraction(), max_value() # zero
    order,          \* the order in which `candidates` iterates, where a specification keeps it
    edge_order      \* the order in which `running_total` iterates, as far as build_graph
                    \* shows it: per candidate, the order of the edges leaving its node

vars == <<candidates, running_total, check_votes, variant, ctor, ballots, regs, call, ret, result,
          num_winners, count_type, order, edge_order>>
tally == <<candidates, running_total, check_votes, variant, ctor>>
config == <<num_winners, count_type, order, edge_order>>

\* ------------------------------------------------------------- helpers
SeqsUpTo(S, n) == UNION {[1..k -> S] : k \in 0..n}

\* The orders in which a HashMap with key set S may be iterated.
Orders(S) == {s \in [1..Cardinality(S) -> S] : \A a \in S : \E i \in DOMAIN s : s[i] = a}

EmptyMap == [x \in {} |-> 0]

\* HashMap::insert
Put(f, k, v) == [x \in (DOMAIN f) \cup {k} |-> IF x = k THEN v ELSE f[x]]

\* HashMap::get(..).unwrap_or(&zero)
Count(rt, k) == IF k \in DOMAIN rt THEN rt[k] ELSE 0

MaxOf(S) == CHOOSE m \in S : \A x \in S : x <= m

Min(a, b) == IF a <= b THEN a ELSE b

Votes == SeqsUpTo(VoteCands, MaxVoteLen)
RankedVotes == SeqsUpTo(VoteCands \X (0..MaxRank), MaxVoteLen)
CandLists == SeqsUpTo(Cands, MaxListLen)

MkCall(op, cs, v, rv, w) == [op |-> op, cands |-> cs, vote |-> v, rvote |-> rv, weight |-> w]

Idle == MkCall("idle", <<>>, <<>>, <<>>, 0)

\* Numeric for a type that is only Num (u64, i64): fraction() = false, max_value() = zero.
IntegerType == [fraction |-> FALSE, bounded |-> FALSE]

\* RankedWinners { winners, num_winners }
RankedWinners_new(n) == [winners |-> <<>>, num_winners |-> n]

NoResult == [totals |-> {}, nodes |-> {}, edges |-> {}, ranked |-> <<>>, paths |-> {},
             counted |-> <<>>, winners |-> RankedWinners_new(0), cands |-> {}]

\* ------------------------------------------------------------- candidates
add_candidate(cs, c) == Put(cs, c, Cardinality(DOMAIN cs))

RECURSIVE add_candidates(_, _)
add_candidates(cs, list) ==
    IF list = <<>> THEN cs
    ELSE add_candidates(add_candidate(cs, Head(list)), Tail(list))

\* ------------------------------------------------------------- validation
\* (mutant) the inner loop starts at i + 2: an adjacent repeat goes unnoticed
check_duplicates_skipping_neighbour(vote) ==
    IF \E i, j \in DOMAIN vote : i + 1 < j /\ vote[j] = vote[i]
    THEN "VoteHasDuplicateCandidates" ELSE "Ok"

check_duplicates_transitive_vote(vote) ==
    IF \E i, j \in DOMAIN vote : i < j /\ vote[j] = vote[i]
    THEN "VoteHasDuplicateCandidates" ELSE "Ok"

check_duplicates_ranked_vote(vote) ==
    IF \E i, j \in DOMAIN vote : i < j /\ vote[j][1] = vote[i][1]
    THEN "VoteHasDuplicateCandidates" ELSE "Ok"

\* (mutant) the candidate lookup is left out
check_vote_without_lookup(cs, vote) == check_duplicates_transitive_vote(vote)

check_vote(cs, vote) ==
    IF \E i \in DOMAIN vote : vote[i] \notin DOMAIN cs
    THEN "UnknownCandidate"
    ELSE check_duplicates_transitive_vote(vote)

\* (mutant) duplicates are looked for before unknown candidates
check_ranked_vote_duplicates_first(cs, vote) ==
    IF check_duplicates_ranked_vote(vote) # "Ok"
    THEN "VoteHasDuplicateCandidates"
    ELSE IF \E i \in DOMAIN vote : vote[i][1] \notin DOMAIN cs
         THEN "UnknownCandidate" ELSE "Ok"

check_ranked_vote(cs, vote) ==
    IF \E i \in DOMAIN vote : vote[i][1] \notin DOMAIN cs
    THEN "UnknownCandidate"
    ELSE check_duplicates_ranked_vote(vote)

\* ------------------------------------------------------------- mapping a ballot to (id, rank)
\* Iterator::position: the 1-based index of the first match, 0 for None.
Position(selection, c) ==
    IF \E i \in DOMAIN selection : selection[i] = c
    THEN CHOOSE i \in DOMAIN selection :
            selection[i] = c /\ \A j \in DOMAIN selection : selection[j] = c => i <= j
    ELSE 0

unranked_mapped_candidates(cs, selection, ord) ==
    [k \in DOMAIN ord |->
        LET idx == Position(selection, ord[k])
        IN  <<cs[ord[k]], IF idx > 0 THEN idx - 1 ELSE Len(selection)>>]

\* Iterator::find on the (candidate, rank) pairs: the rank of the first match.
FoundIn(selection, c) == \E i \in DOMAIN selection : selection[i][1] = c
FoundRank(selection, c) ==
    selection[CHOOSE i \in DOMAIN selection :
                selection[i][1] = c /\ \A j \in DOMAIN selection : selection[j][1] = c => i <= j][2]

\* ParsedVote::into_ranked of an unranked vote: each candidate with its position as rank
ParsedVote_into_ranked(unranked) == [i \in DOMAIN unranked |-> <<unranked[i], i - 1>>]

\* (mutant) the candidates the vote omits get the rank max_rank
ranked_mapped_candidates_sharing_last(cs, selection, ord) ==
    LET listed == SelectSeq(ord, LAMBDA c : FoundIn(selection, c))
        trailing_candidates == SelectSeq(ord, LAMBDA c : ~FoundIn(selection, c))
        max_rank == MaxOf({0} \cup {FoundRank(selection, listed[k]) : k \in DOMAIN listed})
    IN  [k \in DOMAIN listed |-> <<cs[listed[k]], FoundRank(selection, listed[k])>>]
        \o [k \in DOMAIN trailing_candidates |-> <<cs[trailing_candidates[k]], max_rank>>]

ranked_mapped_candidates(cs, selection, ord) ==
    LET listed == SelectSeq(ord, LAMBDA c : FoundIn(selection, c))
        trailing_candidates == SelectSeq(ord, LAMBDA c : ~FoundIn(selection, c))
        max_rank == MaxOf({0} \cup {FoundRank(selection, listed[k]) : k \in DOMAIN listed})
    IN  [k \in DOMAIN listed |-> <<cs[listed[k]], FoundRank(selection, listed[k])>>]
        \o [k \in DOMAIN trailing_candidates |-> <<cs[trailing_candidates[k]], max_rank + 1>>]

\* ------------------------------------------------------------- the pairwise accumulator
\* *entry(k).or_insert(zero) += weight
\* (mutant) the weight is subtracted
Inc_subtracting(rt, k, weight) == Put(rt, k, Count(rt, k) - weight)

Inc(rt, k, weight) == Put(rt, k, Count(rt, k) + weight)

ComparePair(rt, e1, e2, weight) ==
    LET rt1 == IF e1[2] < e2[2] THEN Inc(rt, <<e1[1], e2[1]>>, weight) ELSE rt
    IN  IF e2[2] < e1[2] THEN Inc(rt1, <<e2[1], e1[1]>>, weight) ELSE rt1

RECURSIVE AddFrom(_, _, _, _, _)
AddFrom(rt, selection, weight, i, j) ==
    IF i > Len(selection) THEN rt
    ELSE IF j > Len(selection) THEN AddFrom(rt, selection, weight, i + 1, i + 2)
    ELSE AddFrom(ComparePair(rt, selection[i], selection[j], weight), selection, weight, i, j + 1)

add_ranked_candidate_ids(rt, selection, weight) == AddFrom(rt, selection, weight, 1, 2)

\* ------------------------------------------------------------- initial states
new == /\ candidates = EmptyMap
       /\ ctor = "new"

with_candidates == \E list \in CandLists :
                      /\ candidates = add_candidates(EmptyMap, list)
                      /\ ctor = "with_candidates"

Init == /\ (new \/ with_candidates)
        /\ running_total = EmptyMap
        /\ check_votes = TRUE
        /\ variant = "None"
        /\ ballots = 0
        /\ regs = 0
        /\ call = Idle
        /\ ret = "Unit"
        /\ result = NoResult
        /\ num_winners = 1
        /\ count_type = IntegerType
        /\ order = <<>>
        /\ edge_order = <<>>

\* ------------------------------------------------------------- mutating methods
Unchecked ==
    /\ call = Idle
    /\ check_votes' = FALSE
    /\ call' = MkCall("unchecked", <<>>, <<>>, <<>>, 0)
    /\ UNCHANGED config
    /\ ret' = "Unit"
    /\ result' = NoResult
    /\ UNCHANGED <<candidates, running_total, variant, ctor, ballots, regs>>

AddCandidate ==
    \E c \in Cands :
        /\ call = Idle
        /\ regs < MaxRegs
        /\ regs' = regs + 1
        /\ candidates' = add_candidate(candidates, c)
        /\ call' = MkCall("add_candidate", <<c>>, <<>>, <<>>, 0)
        /\ UNCHANGED config
        /\ ret' = "Unit"
        /\ result' = NoResult
        /\ UNCHANGED <<running_total, check_votes, variant, ctor, ballots>>

AddCandidates ==
    \E list \in CandLists :
        /\ call = Idle
        /\ regs < MaxRegs
        /\ regs' = regs + 1
        /\ candidates' = add_candidates(candidates, list)
        /\ call' = MkCall("add_candidates", list, <<>>, <<>>, 0)
        /\ UNCHANGED config
        /\ ret' = "Unit"
        /\ result' = NoResult
        /\ UNCHANGED <<running_total, check_votes, variant, ctor, ballots>>

\* add_weighted; add is add_weighted with C::one()
add_weighted(op, vote, weight) ==
    LET checked == IF check_votes THEN check_vote(candidates, vote) ELSE "Ok"
    IN  /\ call = Idle
        /\ ballots < MaxBallots
        /\ call' = MkCall(op, <<>>, vote, <<>>, weight)
        /\ UNCHANGED config
        /\ result' = NoResult
        /\ IF checked # "Ok"
           THEN /\ ret' = checked
                /\ UNCHANGED <<candidates, running_total, check_votes, variant, ctor, ballots, regs>>
           ELSE /\ \E ord \in Orders(DOMAIN candidates) :
                      running_total' = add_ranked_candidate_ids(running_total,
                                          unranked_mapped_candidates(candidates, vote, ord), weight)
                /\ ret' = "Ok"
                /\ ballots' = ballots + 1
                /\ UNCHANGED <<candidates, check_votes, variant, ctor, regs>>

\* ranked_add_weighted; ranked_add is ranked_add_weighted with C::one()
ranked_add_weighted(op, vote, weight) ==
    LET checked == IF check_votes THEN check_ranked_vote(candidates, vote) ELSE "Ok"
    IN  /\ call = Idle
        /\ ballots < MaxBallots
        /\ call' = MkCall(op, <<>>, <<>>, vote, weight)
        /\ UNCHANGED config
        /\ result' = NoResult
        /\ IF checked # "Ok"
           THEN /\ ret' = checked
                /\ UNCHANGED <<candidates, running_total, check_votes, variant, ctor, ballots, regs>>
           ELSE /\ \E ord \in Orders(DOMAIN candidates) :
                      running_total' = add_ranked_candidate_ids(running_total,
                                          ranked_mapped_candidates(candidates, vote, ord), weight)
                /\ ret' = "Ok"
                /\ ballots' = ballots + 1
                /\ UNCHANGED <<candidates, check_votes, variant, ctor, regs>>

Add == \E vote \in Votes : add_weighted("add", vote, 1)

AddWeighted == \E vote \in Votes, weight \in Weights : add_weighted("add_weighted", vote, weight)

RankedAdd == \E vote \in RankedVotes : ranked_add_weighted("ranked_add", vote, 1)

RankedAddWeighted ==
    \E vote \in RankedVotes, weight \in Weights :
        ranked_add_weighted("ranked_add_weighted", vote, weight)

\* ------------------------------------------------------------- queries
\* The inverted candidate map (id -> candidate) built by iterating `candidates` in the
\* order ord: a later insert under the same id replaces the earlier one.
InvertMap(cs, ord) ==
    [i \in {cs[c] : c \in DOMAIN cs} |->
        ord[MaxOf({k \in DOMAIN ord : cs[ord[k]] = i})]]

\* totals(): each (candidate1, candidate2, count); the unwrap of a missing id panics.
totals(cs, rt, ord) ==
    LET inv == InvertMap(cs, ord)
    IN  IF \E k \in DOMAIN rt : k[1] \notin DOMAIN inv \/ k[2] \notin DOMAIN inv
        THEN [panic |-> TRUE, totals |-> {}]
        ELSE [panic |-> FALSE, totals |-> {<<inv[k[1]], inv[k[2]], rt[k]>> : k \in DOMAIN rt}]

\* (mutant) the edges lead from the more preferred candidate to the less preferred one
build_graph_from_preferred(cs, rt, ord) ==
    LET graph_ids == InvertMap(cs, ord)
        adding == {k \in DOMAIN rt : rt[k] >= Count(rt, <<k[2], k[1]>>)}
    IN  IF \E k \in adding : k[1] \notin DOMAIN graph_ids \/ k[2] \notin DOMAIN graph_ids
        THEN [panic |-> TRUE, nodes |-> {}, edges |-> {}]
        ELSE [panic |-> FALSE,
              nodes |-> DOMAIN cs,
              edges |-> {[from |-> graph_ids[k[1]], to |-> graph_ids[k[2]],
                          label |-> <<rt[k], Count(rt, <<k[2], k[1]>>)>>] : k \in adding}]

\* build_graph(): one node per key of `candidates` (a node is named by its candidate);
\* graph_ids maps an id to the node added last under it. A table key (c1, c2) whose count
\* is >= the reverse count adds the edge c2 -> c1; unwrapping a missing graph id panics.
build_graph(cs, rt, ord) ==
    LET graph_ids == InvertMap(cs, ord)
        adding == {k \in DOMAIN rt : rt[k] >= Count(rt, <<k[2], k[1]>>)}
    IN  IF \E k \in adding : k[1] \notin DOMAIN graph_ids \/ k[2] \notin DOMAIN graph_ids
        THEN [panic |-> TRUE, nodes |-> {}, edges |-> {}]
        ELSE [panic |-> FALSE,
              nodes |-> DOMAIN cs,
              edges |-> {[from |-> graph_ids[k[2]], to |-> graph_ids[k[1]],
                          label |-> <<rt[k], Count(rt, <<k[2], k[1]>>)>>] : k \in adding}]

\* Reachability in the graph (reflexive, transitive).
RECURSIVE Closure(_, _)
Closure(R, nodes) ==
    LET R2 == R \cup {p \in nodes \X nodes :
                        \E b \in nodes : <<p[1], b>> \in R /\ <<b, p[2]>> \in R}
    IN  IF R2 = R THEN R ELSE Closure(R2, nodes)

Reach(g) == Closure({<<e.from, e.to>> : e \in g.edges} \cup {<<n, n>> : n \in g.nodes}, g.nodes)

SameScc(g, a, b) == <<a, b>> \in Reach(g) /\ <<b, a>> \in Reach(g)

\* petgraph::algo::tarjan_scc: the strongly connected components, in postorder (reverse
\* topological order: for an edge u -> v between two components, v's comes first); the
\* order of the nodes within a component, and of unrelated components, follows the node
\* indices, which follow the iteration order of `candidates`. A result is given as the
\* flattened node order p.
tarjan_scc(g) ==
    {p \in Orders(g.nodes) :
        /\ \A i, j, k \in DOMAIN p :
              (i < j /\ j < k /\ SameScc(g, p[i], p[k])) => SameScc(g, p[i], p[j])
        /\ \A e \in g.edges :
              ~SameScc(g, e.from, e.to) =>
                 \E i, j \in DOMAIN p : i < j /\ p[i] = e.to /\ p[j] = e.from}

\* ranked(): rank = index of the component in the emitted order.
ranked(g, p) ==
    [i \in DOMAIN p |->
        <<p[i], Cardinality({{n \in g.nodes : SameScc(g, n, p[j])} : j \in 1..i}) - 1>>]

Totals ==
    \E ord \in Orders(DOMAIN candidates) :
        LET t == totals(candidates, running_total, ord)
        IN  /\ call = Idle
            /\ call' = MkCall("totals", <<>>, <<>>, <<>>, 0)
            /\ UNCHANGED config
            /\ ret' = IF t.panic THEN "Panic" ELSE "Value"
            /\ result' = [NoResult EXCEPT !.totals = t.totals]
            /\ UNCHANGED <<candidates, running_total, check_votes, variant, ctor, ballots, regs>>

BuildGraph ==
    \E ord \in Orders(DOMAIN candidates) :
        LET g == build_graph(candidates, running_total, ord)
        IN  /\ call = Idle
            /\ call' = MkCall("build_graph", <<>>, <<>>, <<>>, 0)
            /\ UNCHANGED config
            /\ ret' = IF g.panic THEN "Panic" ELSE "Value"
            /\ result' = [NoResult EXCEPT !.nodes = g.nodes, !.edges = g.edges]
            /\ UNCHANGED <<candidates, running_total, check_votes, variant, ctor, ballots, regs>>

Ranked ==
    \E ord \in Orders(DOMAIN candidates) :
        LET g == build_graph(candidates, running_total, ord)
        IN  /\ call = Idle
            /\ call' = MkCall("ranked", <<>>, <<>>, <<>>, 0)
            /\ UNCHANGED config
            /\ IF g.panic
               THEN /\ ret' = "Panic"
                    /\ result' = NoResult
               ELSE /\ ret' = "Value"
                    /\ \E p \in tarjan_scc(g) : result' = [NoResult EXCEPT !.ranked = ranked(g, p)]
            /\ UNCHANGED <<candidates, running_total, check_votes, variant, ctor, ballots, regs>>

\* The caller takes the returned value and goes on to its next call.
Resume ==
    /\ call # Idle
    /\ call' = Idle
    /\ UNCHANGED config
    /\ ret' = "Unit"
    /\ result' = NoResult
    /\ UNCHANGED <<candidates, running_total, check_votes, variant, ctor, ballots, regs>>

Next ==
    \/ Unchecked
    \/ AddCandidate
    \/ AddCandidates
    \/ Add
    \/ AddWeighted
    \/ RankedAdd
    \/ RankedAddWeighted
    \/ Totals
    \/ BuildGraph
    \/ Ranked
    \/ Resume

Spec == Init /\ [][Next]_vars

\* ------------------------------------------------------------- RankedWinners, CountedCandidates
\* slice::sort_by (stable) on the second component, ascending when asc, else descending.
RECURSIVE InsertBy(_, _, _)
InsertBy(sorted, e, asc) ==
    IF sorted = <<>> THEN <<e>>
    ELSE LET last == sorted[Len(sorted)]
         IN  IF (asc /\ e[2] < last[2]) \/ (~asc /\ e[2] > last[2])
             THEN Append(InsertBy(SubSeq(sorted, 1, Len(sorted) - 1), e, asc), last)
             ELSE Append(sorted, e)

RECURSIVE SortBy(_, _)
SortBy(list, asc) ==
    IF list = <<>> THEN <<>>
    ELSE InsertBy(SortBy(SubSeq(list, 1, Len(list) - 1), asc), list[Len(list)], asc)

\* RankedWinners::sort
RankedWinners_sort(w) == [w EXCEPT !.winners = SortBy(@, TRUE)]

\* CountedCandidates::sort
CountedCandidates_sort(counted) == SortBy(counted, FALSE)

check_overflow(w) == Len(w.winners) > w.num_winners

\* overflow(): Some(the candidates at the rank of the last winner) or None
overflow(w) ==
    IF check_overflow(w)
    THEN [some |-> TRUE,
          list |-> LET overflow_rank == w.winners[Len(w.winners)][2]
                   IN  SelectSeq(w.winners, LAMBDA e : e[2] = overflow_rank)]
    ELSE [some |-> FALSE, list |-> <<>>]

\* (mutant) the loop stops as soon as enough winners are in, also inside a rank group
from_ranked_break_splitting_ties(len, n, rank, prev_rank) == len >= n

\* the `break` test of from_ranked
from_ranked_break(len, n, rank, prev_rank) == len >= n /\ rank # prev_rank

RECURSIVE from_ranked_loop(_, _, _, _)
from_ranked_loop(list, i, w, prev_rank) ==
    IF i > Len(list) THEN w
    ELSE IF from_ranked_break(Len(w.winners), w.num_winners, list[i][2], prev_rank) THEN w
    ELSE from_ranked_loop(list, i + 1, [w EXCEPT !.winners = Append(@, list[i])], list[i][2])

from_ranked(list, n) == RankedWinners_sort(from_ranked_loop(list, 1, RankedWinners_new(n), 0))

\* the early `return` test of into_ranked, reached when the score changes
into_ranked_return(len, n) == n # 0 /\ len >= n

RECURSIVE into_ranked_loop(_, _, _, _, _)
into_ranked_loop(sorted, i, w, rank, prev) ==
    IF i > Len(sorted) THEN w
    ELSE IF sorted[i][2] # prev /\ into_ranked_return(Len(w.winners), w.num_winners) THEN w
    ELSE LET r == IF sorted[i][2] # prev THEN rank + 1 ELSE rank
         IN  into_ranked_loop(sorted, i + 1,
                              [w EXCEPT !.winners = Append(@, <<sorted[i][1], r>>)], r, sorted[i][2])

into_ranked(counted, n) ==
    IF Len(counted) = 0 THEN RankedWinners_new(n)
    ELSE LET sorted == CountedCandidates_sort(counted)
         IN  into_ranked_loop(sorted, 1, RankedWinners_new(n), 0, sorted[1][2])

\* ------------------------------------------------------------- RankedWinners on its own
\* The lists handed to from_ranked: distinct candidates, grouped by ascending rank, the
\* ranks 0, 1, 2, ... without a gap (what CondorcetTally::ranked returns).
RankedInputs ==
    {r \in SeqsUpTo(Cands3 \X (0..(Cardinality(Cands3) - 1)), Cardinality(Cands3)) :
        /\ \A i, j \in DOMAIN r : i # j => r[i][1] # r[j][1]
        /\ r # <<>> => r[1][2] = 0
        /\ \A i \in DOMAIN r : i > 1 => r[i][2] \in {r[i - 1][2], r[i - 1][2] + 1}}

\* The lists handed to into_ranked: distinct candidates with their counts, in any order
\* (what PluralityTally::get_counted returns).
CountedInputs ==
    {r \in SeqsUpTo(Cands3 \X (0..MaxCount), Cardinality(Cands3)) :
        \A i, j \in DOMAIN r : i # j => r[i][1] # r[j][1]}

WinnersInit ==
    /\ candidates = EmptyMap
    /\ running_total = EmptyMap
    /\ check_votes = TRUE
    /\ variant = "None"
    /\ ctor = "none"
    /\ ballots = 0
    /\ regs = 0
    /\ call = Idle
    /\ ret = "Unit"
    /\ result = NoResult
    /\ num_winners = 0
    /\ count_type = IntegerType
    /\ order = <<>>
    /\ edge_order = <<>>

FromRanked ==
    \E list \in RankedInputs, n \in 0..MaxWinners :
        /\ call = Idle
        /\ call' = MkCall("from_ranked", <<>>, <<>>, <<>>, 0)
        /\ ret' = "Value"
        /\ result' = [NoResult EXCEPT !.ranked = list, !.winners = from_ranked(list, n)]
        /\ UNCHANGED <<tally, ballots, regs, config>>

IntoRanked ==
    \E counted \in CountedInputs, n \in 0..MaxWinners :
        /\ call = Idle
        /\ call' = MkCall("into_ranked", <<>>, <<>>, <<>>, 0)
        /\ ret' = "Value"
        /\ result' = [NoResult EXCEPT !.counted = counted, !.winners = into_ranked(counted, n)]
        /\ UNCHANGED <<tally, ballots, regs, config>>

WinnersNext == FromRanked \/ IntoRanked \/ Resume

SpecWinners == WinnersInit /\ [][WinnersNext]_vars

\* ------------------------------------------------------------- tarjan_scc, step by step
\* The orders in which `running_total` may iterate, as far as the graph shows them: for
\* each candidate, the order of the other candidates as targets of the edges leaving it.
EdgeOrders(S) ==
    {f \in [S -> UNION {Orders(S \ {c}) : c \in S}] : \A c \in S : f[c] \in Orders(S \ {c})}

\* Graph::neighbors(v): the targets of the edges leaving v, in the order eo gives them.
neighbors(g, eo, v) == SelectSeq(eo[v], LAMBDA w : \E e \in g.edges : e.from = v /\ e.to = w)

TarjanInit == [index |-> EmptyMap, lowlink |-> EmptyMap, stack |-> <<>>, sccs |-> <<>>]

\* (mutant) no node is found on the stack
OnStack_never(st, w) == FALSE

OnStack(st, w) == \E i \in DOMAIN st.stack : st.stack[i] = w

\* The component rooted at v is popped off the stack, v last, and emitted.
PopScc(st, v) ==
    LET at == CHOOSE i \in DOMAIN st.stack : st.stack[i] = v
        n == Len(st.stack)
    IN  [st EXCEPT !.stack = SubSeq(@, 1, at - 1),
                   !.sccs = Append(@, [k \in 1..(n - at + 1) |-> st.stack[n + 1 - k]])]

RECURSIVE scc_visit(_, _, _, _)
RECURSIVE scc_visit_neighbors(_, _, _, _, _)
scc_visit_neighbors(g, eo, v, ws, st) ==
    IF ws = <<>> THEN st
    ELSE LET w == Head(ws)
             st1 == IF w \notin DOMAIN st.index
                    THEN LET sw == scc_visit(g, eo, w, st)
                         IN  [sw EXCEPT !.lowlink[v] = Min(@, sw.lowlink[w])]
                    ELSE IF OnStack(st, w)
                         THEN [st EXCEPT !.lowlink[v] = Min(@, st.index[w])]
                         ELSE st
         IN  scc_visit_neighbors(g, eo, v, Tail(ws), st1)

scc_visit(g, eo, v, st) ==
    LET i == Cardinality(DOMAIN st.index)
        st1 == [st EXCEPT !.index = Put(@, v, i), !.lowlink = Put(@, v, i),
                          !.stack = Append(@, v)]
        st2 == scc_visit_neighbors(g, eo, v, neighbors(g, eo, v), st1)
    IN  IF st2.lowlink[v] = st2.index[v] THEN PopScc(st2, v) ELSE st2

RECURSIVE scc_from(_, _, _, _, _)
scc_from(g, eo, ord, k, st) ==
    IF k > Len(ord) THEN st
    ELSE scc_from(g, eo, ord, k + 1,
                  IF ord[k] \in DOMAIN st.index THEN st ELSE scc_visit(g, eo, ord[k], st))

\* tarjan_scc(&graph) on the graph whose nodes were added in the order ord and whose
\* edges were added in an order that shows as eo: the components in the order emitted.
tarjan_scc_of(g, ord, eo) == scc_from(g, eo, ord, 1, TarjanInit).sccs

\* (mutant) the ranks are counted from one
RECURSIVE push_ranked_from_one(_, _)
push_ranked_from_one(smith_sets, k) ==
    IF k > Len(smith_sets) THEN <<>>
    ELSE [i \in DOMAIN smith_sets[k] |-> <<smith_sets[k][i], k>>]
         \o push_ranked_from_one(smith_sets, k + 1)

\* for (rank, smith_set) in smith_sets.iter().enumerate(): every member of the set is
\* pushed with that rank
RECURSIVE push_ranked(_, _)
push_ranked(smith_sets, k) ==
    IF k > Len(smith_sets) THEN <<>>
    ELSE [i \in DOMAIN smith_sets[k] |-> <<smith_sets[k][i], k - 1>>]
         \o push_ranked(smith_sets, k + 1)

\* CondorcetTally::ranked() from its graph g, whose nodes were added in the order ord and
\* whose edges in an order that shows as eo
ranked_in(g, ord, eo) == push_ranked(tarjan_scc_of(g, ord, eo), 1)

\* ------------------------------------------------------------- SchulzeTally
\* A strength is a count (Winning, Margin) or, for Ratio, the quotient of two counts,
\* kept as <<numerator, denominator>> with a denominator >= 0; <<1, 0>> is C::max_value().
Zero(var) == IF var = "Ratio" THEN <<0, 1>> ELSE 0

Less(var, x, y) == IF var = "Ratio" THEN x[1] * y[2] < y[1] * x[2] ELSE x < y

max_value == <<1, 0>>

\* (mutant) every variant measures a link by its margin
link_strength_by_margin(var, dij, dji) == dij - dji

\* the strength of the link i -> j when dij > dji
link_strength(var, dij, dji) ==
    CASE var = "Winning" -> dij
      [] var = "Margin" -> dij - dji
      [] var = "Ratio" -> IF dji # 0
                          THEN IF dji > 0 THEN <<dij, dji>> ELSE <<0 - dij, 0 - dji>>
                          ELSE max_value

\* the three nested loops over candidates.values(): for each i in turn, every j and k
\* with i, j, k distinct get p[j,k] := max(p[j,k], min(p[j,i], p[i,k])). The pass for one i
\* writes no entry it reads (p[j,i] and p[i,k] have i as an end), so it is one update of
\* all the entries at once.
widest_pass(var, p, i) ==
    [x \in DOMAIN p |->
        IF x[1] # i /\ x[2] # i
        THEN LET pji == p[<<x[1], i>>]
                 pik == p[<<i, x[2]>>]
                 pjk == p[x]
                 min == IF Less(var, pji, pik) THEN pji ELSE pik
             IN  IF Less(var, min, pjk) THEN pjk ELSE min
        ELSE p[x]]

\* (mutant) only the first candidate is tried as the intermediate one
widest_first_pass(var, ids, p, a) == IF Len(ids) = 0 THEN p ELSE widest_pass(var, p, ids[1])

RECURSIVE widest(_, _, _, _)
widest(var, ids, p, a) ==
    IF a > Len(ids) THEN p ELSE widest(var, ids, widest_pass(var, p, ids[a]), a + 1)

\* strongest_paths(): each ((candidate1, candidate2), strength)
strongest_paths(cs, rt, var, ord) ==
    LET ids == [k \in DOMAIN ord |-> cs[ord[k]]]
        idset == {cs[c] : c \in DOMAIN cs}
        p0 == [x \in {y \in idset \X idset : y[1] # y[2]} |->
                  LET dij == Count(rt, x)
                      dji == Count(rt, <<x[2], x[1]>>)
                  IN  IF dij > dji THEN link_strength(var, dij, dji) ELSE Zero(var)]
        p == widest(var, ids, p0, 1)
        inv == InvertMap(cs, ord)
    IN  {<<inv[x[1]], inv[x[2]], p[x]>> : x \in DOMAIN p}

\* (mutant) the weaker side of a pair counts one as well
path_wins_every_pair(var, paths) ==
    [c \in {t[1] : t \in paths} |-> Cardinality({t \in paths : t[1] = c})]

\* (mutant) only a strictly stronger path counts
path_wins_strict(var, paths) ==
    [c \in {t[1] : t \in paths} |->
        Cardinality({t \in paths :
                        /\ t[1] = c
                        /\ \A u \in paths :
                              (u[1] = t[2] /\ u[2] = t[1]) => Less(var, u[3], t[3])})]

\* get_counted(): a candidate counts one for every candidate its strongest path to is at
\* least as strong as the path back (add_ref), and is listed with zero otherwise.
path_wins(var, paths) ==
    [c \in {t[1] : t \in paths} |->
        Cardinality({t \in paths :
                        /\ t[1] = c
                        /\ \A u \in paths :
                              (u[1] = t[2] /\ u[2] = t[1]) => ~Less(var, t[3], u[3])})]

\* PluralityTally::get_counted(): the counts as a list, in the iteration order `into` of
\* the map built for the call
get_counted(wins, into) == [n \in DOMAIN into |-> <<into[n], wins[into[n]]>>]

\* ------------------------------------------------------------- a tally of three candidates
\* with_candidates(num_winners, [A, B, C]) of a CondorcetTally (variant "None") or of a
\* SchulzeTally, its ballots, and the queries on it.
RankVotes == Orders(Cands3) \cup {<<c>> : c \in Cands3}

RankWeights == {-1, 1}

RankVariants == {"None", "Winning", "Margin"}

\* the iteration orders a map keyed by the three candidates may have
Orders3 == Orders(Cands3)
EdgeOrders3 == EdgeOrders(Cands3)

QueryOps == {"candidates", "totals", "build_graph", "strongest_paths", "ranked", "winners"}

\* the queries whose output is read twice
RepeatedOps == {"build_graph", "ranked", "winners"}

\* A query that repeats the query before it is marked (a query takes no weight: 1 stands
\* for "the call before was this query too").
MkQuery(op) == MkCall(op, <<>>, <<>>, <<>>, IF call.op = op THEN 1 ELSE 0)

with_candidates3 ==
    /\ candidates = add_candidates(EmptyMap, <<"A", "B", "C">>)
    /\ ctor = "with_candidates"
    /\ running_total = EmptyMap
    /\ check_votes = TRUE
    /\ ballots = 0
    /\ regs = 0
    /\ call = Idle
    /\ ret = "Unit"
    /\ result = NoResult
    /\ count_type = IntegerType

\* add_weighted on the three-candidate tally; eo is the order `running_total` iterates
\* in after the call if the call inserted a key
add_weighted3(op, vote, weight, bound, ord, eo) ==
    LET checked == IF check_votes THEN check_vote(candidates, vote) ELSE "Ok"
        rt == add_ranked_candidate_ids(running_total,
                  unranked_mapped_candidates(candidates, vote, ord), weight)
    IN  /\ call = Idle
        /\ ballots < bound
        /\ call' = MkCall(op, <<>>, vote, <<>>, weight)
        /\ result' = NoResult
        /\ IF checked # "Ok"
           THEN /\ ret' = checked
                /\ UNCHANGED <<tally, ballots, regs, config>>
           ELSE /\ running_total' = rt
                /\ ret' = "Ok"
                /\ ballots' = ballots + 1
                /\ edge_order' = IF DOMAIN rt = DOMAIN running_total THEN edge_order ELSE eo
                /\ UNCHANGED <<candidates, check_votes, variant, ctor, regs,
                               num_winners, count_type, order>>

\* candidates(): the registered candidates
candidates_query ==
    /\ call' = MkQuery("candidates")
    /\ ret' = "Value"
    /\ result' = [NoResult EXCEPT !.cands = DOMAIN candidates]
    /\ UNCHANGED <<tally, ballots, regs, config>>

totals_query(ord) ==
    LET t == totals(candidates, running_total, ord)
    IN  /\ call' = MkQuery("totals")
        /\ ret' = IF t.panic THEN "Panic" ELSE "Value"
        /\ result' = [NoResult EXCEPT !.totals = t.totals]
        /\ UNCHANGED <<tally, ballots, regs, config>>

\* (mutant) the reverse count is read with entry(..).or_insert(zero), which stores the key
build_graph_query_inserting(ord) ==
    LET g == build_graph(candidates, running_total, ord)
    IN  /\ call' = MkQuery("build_graph")
        /\ ret' = IF g.panic THEN "Panic" ELSE "Value"
        /\ result' = [NoResult EXCEPT !.nodes = g.nodes, !.edges = g.edges]
        /\ running_total' = [k \in DOMAIN running_total
                                     \cup {<<x[2], x[1]>> : x \in DOMAIN running_total} |->
                                Count(running_total, k)]
        /\ UNCHANGED <<candidates, check_votes, variant, ctor, ballots, regs, config>>

build_graph_query(ord) ==
    LET g == build_graph(candidates, running_total, ord)
    IN  /\ call' = MkQuery("build_graph")
        /\ ret' = IF g.panic THEN "Panic" ELSE "Value"
        /\ result' = [NoResult EXCEPT !.nodes = g.nodes, !.edges = g.edges]
        /\ UNCHANGED <<tally, ballots, regs, config>>

strongest_paths_query(ord) ==
    /\ variant # "None"
    /\ call' = MkQuery("strongest_paths")
    /\ ret' = "Value"
    /\ result' = [NoResult EXCEPT !.paths = strongest_paths(candidates, running_total, variant, ord)]
    /\ UNCHANGED <<tally, ballots, regs, config>>

\* The edge orders that differ in what neighbors() yields on the graph g: one order for
\* every way to arrange the edges of the nodes that two edges leave.
FirstEdgeOrder == CHOOSE eo \in EdgeOrders3 : TRUE

Tennessee == {"Memphis", "Nashville", "Chattanooga", "Knoxville"}

EdgeOrders4 == EdgeOrders(Tennessee)

EdgeOrdersOf(nodes) ==
    IF nodes = Cands3 THEN EdgeOrders3
    ELSE IF nodes = Tennessee THEN EdgeOrders4
    ELSE EdgeOrders(nodes)

RelevantEdgeOrders(g) ==
    LET all == EdgeOrdersOf(g.nodes)
        first == IF g.nodes = Cands3 THEN FirstEdgeOrder ELSE CHOOSE eo \in all : TRUE
    IN  {eo \in all :
            \A v \in g.nodes :
               Cardinality({e \in g.edges : e.from = v}) < 2 => eo[v] = first[v]}

\* ranked() and winners(). CondorcetTally::winners() is from_ranked(self.ranked(),
\* num_winners); a SchulzeTally answers both from get_counted(), whose list follows the
\* iteration order `into` of a map built for the call. `running_total` iterates in the
\* order the state keeps (kept) or in any order.
ranking_query(op, ord, kept) ==
    /\ op \in {"ranked", "winners"}
    /\ call' = MkQuery(op)
    /\ IF variant = "None"
       THEN LET g == build_graph(candidates, running_total, ord)
            IN  IF g.panic
                THEN ret' = "Panic" /\ result' = NoResult
                ELSE \E eo \in (IF kept THEN {edge_order} ELSE RelevantEdgeOrders(g)) :
                        LET r == ranked_in(g, ord, eo)
                        IN  /\ ret' = "Value"
                            /\ result' = [NoResult EXCEPT
                                             !.ranked = r,
                                             !.winners = IF op = "winners"
                                                         THEN from_ranked(r, num_winners)
                                                         ELSE RankedWinners_new(0)]
       ELSE \E wins \in {path_wins(variant,
                              strongest_paths(candidates, running_total, variant, ord))} :
                \E into \in Orders(DOMAIN wins) :
                   LET counted == get_counted(wins, into)
                   IN  /\ ret' = "Value"
                       /\ result' = [NoResult EXCEPT
                                        !.ranked = IF op = "ranked"
                                                   THEN into_ranked(counted, 0).winners
                                                   ELSE <<>>,
                                        !.winners = IF op = "winners"
                                                    THEN into_ranked(counted, num_winners)
                                                    ELSE RankedWinners_new(0)]
    /\ UNCHANGED <<tally, ballots, regs, config>>

\* ---- `candidates` is never changed after with_candidates and keeps its iteration order
\* (`order`); the order of `running_total` is drawn anew by every call that reads it.
RankInit ==
    /\ with_candidates3
    /\ variant \in RankVariants
    /\ num_winners = 2
    /\ order \in Orders3
    /\ edge_order = <<>>

RankAdd == \E vote \in RankVotes : add_weighted3("add", vote, 1, MaxRankBallots, order, <<>>)

RankAddWeighted ==
    \E vote \in Orders3, weight \in RankWeights :
        add_weighted3("add_weighted", vote, weight, MaxRankBallots, order, <<>>)

RankCandidates == call = Idle /\ candidates_query

RankTotals == call = Idle /\ totals_query(order)

RankBuildGraph == call = Idle /\ build_graph_query(order)

RankStrongestPaths == call = Idle /\ strongest_paths_query(order)

RankRanked == call = Idle /\ ranking_query("ranked", order, FALSE)

RankWinnersOf == call = Idle /\ ranking_query("winners", order, FALSE)

RankNext ==
    \/ RankAdd
    \/ RankAddWeighted
    \/ RankCandidates
    \/ RankTotals
    \/ RankBuildGraph
    \/ RankStrongestPaths
    \/ RankRanked
    \/ RankWinnersOf
    \/ Resume

SpecRank == RankInit /\ [][RankNext]_vars

\* ---- both maps keep their iteration order from call to call: `order` for `candidates`,
\* `edge_order` for `running_total` (drawn anew whenever a ballot inserts a key). A query
\* of RepeatedOps may be repeated at once.
CanQuery(op) == call = Idle \/ (op \in RepeatedOps /\ call.op = op)

QueryInit ==
    /\ with_candidates3
    /\ variant \in RankVariants
    /\ num_winners = 2
    /\ order \in Orders3
    /\ edge_order \in EdgeOrders3

QueryAdd ==
    \E vote \in RankVotes, eo \in EdgeOrders3 :
        add_weighted3("add", vote, 1, MaxQueryBallots, order, eo)

QueryCandidates == CanQuery("candidates") /\ candidates_query

QueryTotals == CanQuery("totals") /\ totals_query(order)

QueryBuildGraph == CanQuery("build_graph") /\ build_graph_query(order)

QueryStrongestPaths == CanQuery("strongest_paths") /\ strongest_paths_query(order)

QueryRanked == CanQuery("ranked") /\ ranking_query("ranked", order, TRUE)

QueryWinners == CanQuery("winners") /\ ranking_query("winners", order, TRUE)

QueryNext ==
    \/ QueryAdd
    \/ QueryCandidates
    \/ QueryTotals
    \/ QueryBuildGraph
    \/ QueryStrongestPaths
    \/ QueryRanked
    \/ QueryWinners
    \/ Resume

SpecQuery == QueryInit /\ [][QueryNext]_vars

\* the step-by-step component order is one of the orders tarjan_scc allows
RankedIsTarjan ==
    (call.op = "ranked" /\ ret = "Value" /\ variant = "None") =>
        LET g == build_graph(candidates, running_total, order)
        IN  \E p \in tarjan_scc(g) : \A i \in DOMAIN p :
               \E j \in DOMAIN result.ranked : result.ranked[j] = ranked(g, p)[i]

\* ------------------------------------------------------------- constructing a SchulzeTally
Variants == {"Winning", "Margin", "Ratio"}

\* The count types C, as their Numeric answers: C::fraction(), C::max_value() # C::zero().
CountTypes == [fraction : BOOLEAN, bounded : BOOLEAN]

CtorWinners == {0, 1}

\* (mutant) only fraction() is asked
check_types_fraction_only(v, ct) == v = "Ratio" /\ ~ct.fraction

\* check_types panics (TRUE) or returns
check_types(v, ct) == v = "Ratio" /\ (~ct.fraction \/ ~ct.bounded)

\* A constructor call: the variant is kept in `vote`, num_winners in `weight`.
CtorCall(op, v, list, n) == MkCall(op, list, <<v>>, <<>>, n)

\* No tally yet: the program has fixed its count type and built nothing.
CtorInit ==
    /\ count_type \in CountTypes
    /\ ctor = "none"
    /\ candidates = EmptyMap
    /\ running_total = EmptyMap
    /\ check_votes = TRUE
    /\ variant = "None"
    /\ num_winners = 0
    /\ ballots = 0
    /\ regs = 0
    /\ call = Idle
    /\ ret = "Unit"
    /\ result = NoResult
    /\ order = <<>>
    /\ edge_order = <<>>

\* SchulzeTally::new / SchulzeTally::with_candidates: check_types first, then the tally
schulze_ctor(op, v, list, n) ==
    /\ call = Idle
    /\ ctor = "none"
    /\ call' = CtorCall(op, v, list, n)
    /\ result' = NoResult
    /\ IF check_types(v, count_type)
       THEN /\ ret' = "Panic"
            /\ UNCHANGED <<tally, ballots, regs, config>>
       ELSE /\ ret' = "Value"
            /\ ctor' = op
            /\ variant' = v
            /\ num_winners' = n
            /\ candidates' = add_candidates(EmptyMap, list)
            /\ UNCHANGED <<running_total, check_votes, ballots, regs, count_type, order, edge_order>>

SchulzeNew == \E v \in Variants, n \in CtorWinners : schulze_ctor("new", v, <<>>, n)

SchulzeWithCandidates ==
    \E v \in Variants, n \in CtorWinners, list \in CandLists :
        schulze_ctor("with_candidates", v, list, n)

\* the methods below need a tally
CtorAdd ==
    /\ ctor # "none"
    /\ \E vote \in CandLists : add_weighted("add", vote, 1)

CtorStrongestPaths ==
    /\ ctor # "none"
    /\ call = Idle
    /\ \E ord \in Orders(DOMAIN candidates) : strongest_paths_query(ord)

CtorRanked ==
    /\ ctor # "none"
    /\ call = Idle
    /\ \E ord \in Orders(DOMAIN candidates) : ranking_query("ranked", ord, FALSE)

CtorWinnersOf ==
    /\ ctor # "none"
    /\ call = Idle
    /\ \E ord \in Orders(DOMAIN candidates) : ranking_query("winners", ord, FALSE)

CtorNext ==
    \/ SchulzeNew
    \/ SchulzeWithCandidates
    \/ CtorAdd
    \/ CtorStrongestPaths
    \/ CtorRanked
    \/ CtorWinnersOf
    \/ Resume

SpecCtor == CtorInit /\ [][CtorNext]_vars

\* ------------------------------------------------------------- the examples of the source
\* A program of the source: its ballots in program order, then its queries. `ballots`
\* is the position in the program; `candidates` iterates in the hidden order `order`.
example_init(list, var, n) ==
    /\ candidates = add_candidates(EmptyMap, list)
    /\ ctor = "with_candidates"
    /\ running_total = EmptyMap
    /\ check_votes = TRUE
    /\ variant = var
    /\ num_winners = n
    /\ count_type = IntegerType
    /\ ballots = 0
    /\ regs = 0
    /\ call = Idle
    /\ ret = "Unit"
    /\ result = NoResult
    /\ order \in Orders(DOMAIN candidates)
    /\ edge_order = <<>>

example_add(program) ==
    /\ ballots < Len(program)
    /\ LET b == program[ballots + 1]
       IN  add_weighted3(b.op, b.vote, b.weight, Len(program), order, <<>>)

\* the queries come after the last ballot
example_done(program) == call = Idle /\ ballots = Len(program)

\* ---- the example in the documentation of CondorcetTally::ranked
DocProgram ==
    [k \in 1..120 |->
        [op |-> "add", weight |-> 1,
         vote |-> IF k <= 50 THEN <<"Alice", "Bob", "Carlos">>
                  ELSE IF k <= 90 THEN <<"Bob", "Carlos", "Alice">>
                  ELSE <<"Carlos", "Alice", "Bob">>]]

DocInit == example_init(<<"Alice", "Bob", "Carlos">>, "None", 1)

DocAdd == example_add(DocProgram)

DocRanked == example_done(DocProgram) /\ ranking_query("ranked", order, FALSE)

DocNext == DocAdd \/ DocRanked \/ Resume

SpecDoc == DocInit /\ [][DocNext]_vars

\* ---- the test condorcet_wikipedia
TennesseeProgram ==
    <<[op |-> "add_weighted", weight |-> 42,
       vote |-> <<"Memphis", "Nashville", "Chattanooga", "Knoxville">>],
      [op |-> "add_weighted", weight |-> 26,
       vote |-> <<"Nashville", "Chattanooga", "Knoxville", "Memphis">>],
      [op |-> "add_weighted", weight |-> 15,
       vote |-> <<"Chattanooga", "Knoxville", "Nashville", "Memphis">>],
      [op |-> "add_weighted", weight |-> 17,
       vote |-> <<"Knoxville", "Chattanooga", "Nashville", "Memphis">>]>>

TennesseeInit ==
    example_init(<<"Memphis", "Nashville", "Chattanooga", "Knoxville">>, "None", 4)

TennesseeAdd == example_add(TennesseeProgram)

TennesseeCandidates == example_done(TennesseeProgram) /\ candidates_query

TennesseeTotals == example_done(TennesseeProgram) /\ totals_query(order)

TennesseeWinners == example_done(TennesseeProgram) /\ ranking_query("winners", order, FALSE)

TennesseeNext ==
    \/ TennesseeAdd
    \/ TennesseeCandidates
    \/ TennesseeTotals
    \/ TennesseeWinners
    \/ Resume

SpecTennessee == TennesseeInit /\ [][TennesseeNext]_vars

\* ---- the test schulze_wikipedia
WikipediaProgram ==
    <<[op |-> "add_weighted", weight |-> 5, vote |-> <<"A", "C", "B", "E", "D">>],
      [op |-> "add_weighted", weight |-> 5, vote |-> <<"A", "D", "E", "C", "B">>],
      [op |-> "add_weighted", weight |-> 8, vote |-> <<"B", "E", "D", "A", "C">>],
      [op |-> "add_weighted", weight |-> 3, vote |-> <<"C", "A", "B", "E", "D">>],
      [op |-> "add_weighted", weight |-> 7, vote |-> <<"C", "A", "E", "B", "D">>],
      [op |-> "add_weighted", weight |-> 2, vote |-> <<"C", "B", "A", "D", "E">>],
      [op |-> "add_weighted", weight |-> 7, vote |-> <<"D", "C", "E", "B", "A">>],
      [op |-> "add_weighted", weight |-> 8, vote |-> <<"E", "B", "A", "D", "C">>]>>

WikipediaInit == example_init(<<"A", "B", "C", "D", "E">>, "Winning", 1)

WikipediaAdd == example_add(WikipediaProgram)

WikipediaTotals == example_done(WikipediaProgram) /\ totals_query(order)

WikipediaStrongestPaths == example_done(WikipediaProgram) /\ strongest_paths_query(order)

WikipediaRanked == example_done(WikipediaProgram) /\ ranking_query("ranked", order, FALSE)

WikipediaNext ==
    \/ WikipediaAdd
    \/ WikipediaTotals
    \/ WikipediaStrongestPaths
    \/ WikipediaRanked
    \/ Resume

SpecWikipedia == WikipediaInit /\ [][WikipediaNext]_vars

\* ------------------------------------------------------------- a SchulzeTally of four
\* with_candidates(1, variant, [A, B, C, D]), weighted ballots, strongest_paths() and
\* ranked(); `candidates` iterates in the hidden order `order`.
Rotations(s) == {[i \in 1..Len(s) |-> s[((i + k - 1) % Len(s)) + 1]] : k \in 0..(Len(s) - 1)}

PathVotes == Rotations(<<"A", "B", "C", "D">>) \cup {<<"A">>}

PathWeights == {2}

PathInit == \E var \in {"Winning", "Margin"} : example_init(<<"A", "B", "C", "D">>, var, 1)

PathAdd == \E vote \in PathVotes : add_weighted3("add", vote, 1, MaxPathBallots, order, <<>>)

PathAddWeighted ==
    \E vote \in PathVotes, weight \in PathWeights :
        add_weighted3("add_weighted", vote, weight, MaxPathBallots, order, <<>>)

PathStrongestPaths == call = Idle /\ strongest_paths_query(order)

PathRanked == call = Idle /\ ranking_query("ranked", order, FALSE)

PathNext ==
    \/ PathAdd
    \/ PathAddWeighted
    \/ PathStrongestPaths
    \/ PathRanked
    \/ Resume

SpecPaths == PathInit /\ [][PathNext]_vars

\* ------------------------------------------------------------- the STV tally (stv.rs)
\* stv::Tally { running_total: HashMap<T, Vec<WeightedVote>>, num_winners, quota }.
\* In SpecStv the variable running_total holds this map (candidate |-> its weighted votes,
\* a sequence of [weight, remaining]) and the variable variant holds the quota. The count
\* type C is an integer type (Num + NumCast), so `/` is the integer division.
Quotas == {"Droop", "Hare", "Hagenbach"}
StvWinners == {1, 2}
StvVotes == SeqsUpTo(Cands3, MaxVoteLen)

RECURSIVE stv_insert_all(_, _)
stv_insert_all(rt, selection) ==
    IF selection = <<>> THEN rt
    ELSE stv_insert_all(IF Head(selection) \in DOMAIN rt THEN rt
                        ELSE Put(rt, Head(selection), <<>>), Tail(selection))

\* Tally::add
stv_add(rt, selection) ==
    IF selection = <<>> THEN rt
    ELSE LET choice == Head(selection)
             rt1 == stv_insert_all(rt, Tail(selection))
             weighted_vote == [weight |-> 1, remaining |-> Tail(selection)]
         IN  Put(rt1, choice,
                 Append(IF choice \in DOMAIN rt1 THEN rt1[choice] ELSE <<>>, weighted_vote))

RECURSIVE SumOver(_, _)
SumOver(f, S) == IF S = {} THEN 0 ELSE LET x == CHOOSE y \in S : TRUE
                                       IN  f[x] + SumOver(f, S \ {x})

total_votes(rt) == SumOver([c \in DOMAIN rt |-> Len(rt[c])], DOMAIN rt)

droop_threshold(rt, n) == (total_votes(rt) \div (n + 1)) + 1
hagenbach_threshold(rt, n) == total_votes(rt) \div (n + 1)
hare_threshold(rt, n) == total_votes(rt) \div n

stv_threshold(quota, rt, n) ==
    CASE quota = "Droop" -> droop_threshold(rt, n)
      [] quota = "Hare" -> hare_threshold(rt, n)
      [] quota = "Hagenbach" -> hagenbach_threshold(rt, n)

\* votecount += vote.weight over the votes of one candidate
votecount(votes) == SumOver([k \in DOMAIN votes |-> votes[k].weight], DOMAIN votes)

RECURSIVE redistribute(_, _, _)
redistribute(rt, vote, weight) ==
    IF vote.remaining = <<>> THEN rt
    ELSE LET next_choice == Head(vote.remaining)
             weighted_vote == [weight |-> weight * vote.weight,
                               remaining |-> Tail(vote.remaining)]
         IN  IF next_choice \in DOMAIN rt
             THEN [rt EXCEPT ![next_choice] = Append(@, weighted_vote)]
             ELSE redistribute(rt, weighted_vote, 1)

\* for vote in votes.drain(0..) { self.redistribute(vote, weight) }
RECURSIVE redistribute_votes(_, _, _)
redistribute_votes(rt, votes, weight) ==
    IF votes = <<>> THEN rt
    ELSE redistribute_votes(redistribute(rt, Head(votes), weight), Tail(votes), weight)

\* Step 4: the votes of every new winner go to their next choices, weighted by the overvote
RECURSIVE redistribute_winners(_, _, _, _)
redistribute_winners(rt, removed, new_winners, threshold) ==
    IF new_winners = <<>> THEN rt
    ELSE LET votes == removed[Head(new_winners)]
             overvote == Len(votes) - threshold
             weight == overvote \div Len(votes)
         IN  redistribute_winners(redistribute_votes(rt, votes, weight), removed,
                                  Tail(new_winners), threshold)

RECURSIVE redistribute_loosers(_, _, _)
redistribute_loosers(rt, removed, new_loosers) ==
    IF new_loosers = <<>> THEN rt
    ELSE redistribute_loosers(redistribute_votes(rt, removed[Head(new_loosers)], 1), removed,
                              Tail(new_loosers))

\* HashMap::remove of every listed candidate
Without(rt, list) == [c \in (DOMAIN rt) \ {list[k] : k \in DOMAIN list} |-> rt[c]]

\* winners.push(candidate, rank) for every listed candidate
PushAll(w, list, rank) ==
    [w EXCEPT !.winners = @ \o [k \in DOMAIN list |-> <<list[k], rank>>]]

\* The loop of Tally::winners; ord is the order in which the hash maps iterate. It yields
\* the winners returned and the running_total the call leaves behind.
RECURSIVE stv_loop(_, _, _, _, _)
stv_loop(rt, w, rank, threshold, ord) ==
    LET remaining == SelectSeq(ord, LAMBDA c : c \in DOMAIN rt)
        new_winners == SelectSeq(remaining, LAMBDA c : votecount(rt[c]) >= threshold)
        least == CHOOSE m \in {votecount(rt[c]) : c \in DOMAIN rt} :
                    \A c \in DOMAIN rt : m <= votecount(rt[c])
        new_loosers == SelectSeq(remaining, LAMBDA c : votecount(rt[c]) <= least)
        needed_winners == w.num_winners - Len(w.winners)
        available_winners == Len(remaining) - Len(new_loosers)
    IN  IF Len(remaining) <= w.num_winners - Len(w.winners)
        THEN [winners |-> PushAll(w, remaining, rank), running_total |-> EmptyMap]
        ELSE IF Len(w.winners) + Len(new_winners) >= w.num_winners
        THEN [winners |-> PushAll(w, new_winners, rank), running_total |-> rt]
        ELSE IF new_winners # <<>>
        THEN LET rt1 == redistribute_winners(Without(rt, new_winners), rt, new_winners,
                                             threshold)
                 w1 == PushAll(w, new_winners, rank)
             IN  IF Len(w1.winners) >= w.num_winners
                 THEN [winners |-> w1, running_total |-> rt1]
                 ELSE stv_loop(rt1, w1, rank + 1, threshold, ord)
        ELSE IF available_winners < needed_winners
        THEN [winners |-> PushAll(w, new_loosers, rank), running_total |-> rt]
        ELSE stv_loop(redistribute_loosers(Without(rt, new_loosers), rt, new_loosers),
                      w, rank, threshold, ord)

\* Tally::winners(&mut self)
stv_winners(rt, n, quota, ord) ==
    stv_loop(rt, RankedWinners_new(n), 0, stv_threshold(quota, rt, n), ord)

\* Tally::new(num_winners, quota)
StvInit ==
    /\ candidates = EmptyMap
    /\ ctor = "new"
    /\ running_total = EmptyMap
    /\ check_votes = FALSE
    /\ variant \in Quotas
    /\ num_winners \in StvWinners
    /\ count_type = IntegerType
    /\ ballots = 0
    /\ regs = 0
    /\ call = Idle
    /\ ret = "Unit"
    /\ result = NoResult
    /\ order = <<>>
    /\ edge_order = <<>>

StvAdd ==
    /\ ballots < MaxStvBallots
    /\ \E selection \in StvVotes :
          /\ call' = MkCall("add", <<>>, selection, <<>>, 1)
          /\ running_total' = stv_add(running_total, selection)
    /\ ballots' = ballots + 1
    /\ ret' = "Unit"
    /\ result' = NoResult
    /\ UNCHANGED <<candidates, check_votes, variant, ctor, regs, config>>

\* winners() may follow winners() directly: the caller still holds the previous value
StvWinnersCall ==
    /\ \E ord \in Orders(Cands3) :
          LET out == stv_winners(running_total, num_winners, variant, ord)
          IN  /\ running_total' = out.running_total
              /\ result' = [NoResult EXCEPT !.winners = out.winners]
    /\ call' = MkQuery("winners")
    /\ ret' = "Value"
    /\ UNCHANGED <<candidates, check_votes, variant, ctor, ballots, regs, config>>

StvNext ==
    \/ StvAdd
    \/ StvWinnersCall

SpecStv == StvInit /\ [][StvNext]_vars

\* ------------------------------------------------------------- the IRV tally (irv.rs)
\* irv::Tally { running_total: VoteTree<T, C>, transfer }. In SpecIrv the variable
\* running_total holds the VoteTree and the variable variant holds the transfer. A VoteTree
\* is modelled as the map from each node's path (the candidates from the root down to it)
\* to its count; the root is the empty path.
Transfers == {"Meek", "Warren"}
IrvVotes == SeqsUpTo(Cands3, MaxIrvVoteLen)
IrvWeights == {1, 2}

\* VoteTree::new
VoteTree_new == [p \in {<<>>} |-> 0]

\* VoteTree::add: count is added to the root and to every node along the vote
VoteTree_add(tree, vote, count) ==
    LET along == {SubSeq(vote, 1, k) : k \in 0..Len(vote)}
    IN  [p \in (DOMAIN tree) \cup along |->
            (IF p \in DOMAIN tree THEN tree[p] ELSE 0) + (IF p \in along THEN count ELSE 0)]

\* the children of a node
VoteTree_children(tree, node) ==
    {p \in DOMAIN tree : Len(p) = Len(node) + 1 /\ SubSeq(p, 1, Len(node)) = node}

\* VoteTree::distribute_votes: a child that is not eliminated scores the count of its
\* subtree, an eliminated child hands the question to its own children
RECURSIVE distribute_votes(_, _, _, _)
distribute_votes(tree, todo, scores, eliminated) ==
    IF todo = {} THEN scores
    ELSE LET deeper == CHOOSE p \in todo : TRUE
             cand == deeper[Len(deeper)]
         IN  distribute_votes(tree, todo \ {deeper},
                 IF cand \notin eliminated
                 THEN Put(scores, cand, Count(scores, cand) + tree[deeper])
                 ELSE distribute_votes(tree, VoteTree_children(tree, deeper), scores,
                                       eliminated),
                 eliminated)

\* VoteTree::assign_votes, as tally_ranked uses it: the scores distribute_votes leaves
assign_votes(tree, eliminated) ==
    distribute_votes(tree, VoteTree_children(tree, <<>>), EmptyMap, eliminated)

\* VoteTree::candidates, as tally_ranked uses it: every candidate some vote has named
VoteTree_candidates(tree) == UNION {{p[k] : k \in DOMAIN p} : p \in DOMAIN tree}

\* The loop of Tally::tally_ranked; ord is the order in which `score` iterates.
RECURSIVE irv_loop(_, _, _, _, _, _)
irv_loop(tree, cs, inverse_ranked, inverse_rank, eliminated, ord) ==
    LET assigned == assign_votes(tree, eliminated)
        score == [c \in (DOMAIN assigned) \cup (cs \ eliminated) |-> Count(assigned, c)]
        iter == SelectSeq(ord, LAMBDA c : c \in DOMAIN score)
        all_tied == \A a, b \in DOMAIN score : score[a] = score[b]
        min_score == CHOOSE m \in {score[c] : c \in DOMAIN score} :
                        \A c \in DOMAIN score : m <= score[c]
        loosers == SelectSeq(iter, LAMBDA c : score[c] = min_score)
    IN  IF DOMAIN score = {}
        THEN [returned |-> TRUE, list |-> inverse_ranked]
        ELSE IF all_tied
        THEN [returned |-> FALSE,
              list |-> inverse_ranked \o [k \in DOMAIN iter |-> <<iter[k], inverse_rank>>]]
        ELSE irv_loop(tree, cs,
                      inverse_ranked \o [k \in DOMAIN loosers |-> <<loosers[k], inverse_rank>>],
                      inverse_rank + 1,
                      eliminated \cup {loosers[k] : k \in DOMAIN loosers}, ord)

\* Tally::tally_ranked
tally_ranked(tree, ord) ==
    LET out == irv_loop(tree, VoteTree_candidates(tree), <<>>, 0, {}, ord)
        num_ranked == Len(out.list)
    IN  IF out.returned THEN out.list
        ELSE [k \in 1..num_ranked |->
                 <<out.list[num_ranked + 1 - k][1],
                   num_ranked - out.list[num_ranked + 1 - k][2] - 1>>]

\* Tally::tally_winners
tally_winners(tree, ord) == from_ranked(tally_ranked(tree, ord), 1)

\* Tally::new(transfer)
IrvInit ==
    /\ candidates = EmptyMap
    /\ ctor = "new"
    /\ running_total = VoteTree_new
    /\ check_votes = FALSE
    /\ variant \in Transfers
    /\ num_winners = 1
    /\ count_type = IntegerType
    /\ ballots = 0
    /\ regs = 0
    /\ call = Idle
    /\ ret = "Unit"
    /\ result = NoResult
    /\ order = <<>>
    /\ edge_order = <<>>

irv_add_weighted(op, selection, weight) ==
    /\ ballots < MaxIrvBallots
    /\ call' = MkCall(op, <<>>, selection, <<>>, weight)
    /\ running_total' = VoteTree_add(running_total, selection, weight)
    /\ ballots' = ballots + 1
    /\ ret' = "Unit"
    /\ result' = NoResult
    /\ UNCHANGED <<candidates, check_votes, variant, ctor, regs, config>>

IrvAdd == \E selection \in IrvVotes : irv_add_weighted("add", selection, 1)

IrvAddWeighted ==
    \E selection \in IrvVotes, weight \in IrvWeights :
        irv_add_weighted("add_weighted", selection, weight)

IrvTallyRanked ==
    /\ \E ord \in Orders(Cands3) :
          result' = [NoResult EXCEPT !.ranked = tally_ranked(running_total, ord)]
    /\ call' = MkQuery("tally_ranked")
    /\ ret' = "Value"
    /\ UNCHANGED <<tally, ballots, regs, config>>

IrvTallyWinners ==
    /\ \E ord \in Orders(Cands3) :
          result' = [NoResult EXCEPT !.winners = tally_winners(running_total, ord)]
    /\ call' = MkQuery("tally_winners")
    /\ ret' = "Value"
    /\ UNCHANGED <<tally, ballots, regs, config>>

IrvNext ==
    \/ IrvAdd
    \/ IrvAddWeighted
    \/ IrvTallyRanked
    \/ IrvTallyWinners

SpecIrv == IrvInit /\ [][IrvNext]_vars

\* ------------------------------------------------------------- reading a call and the table
BallotOps == {"add", "add_weighted", "ranked_add", "ranked_add_weighted"}

\* The candidates a ballot names.
Named(c) == {c.vote[i] : i \in DOMAIN c.vote} \cup {c.rvote[i][1] : i \in DOMAIN c.rvote}

\* The ballot lists some candidate more than once.
HasDuplicate(c) ==
    \/ \E i, j \in DOMAIN c.vote : i # j /\ c.vote[i] = c.vote[j]
    \/ \E i, j \in DOMAIN c.rvote : i # j /\ c.rvote[i][1] = c.rvote[j][1]

\* The ballot (without duplicates) strictly prefers a to b: a is listed, and b is omitted,
\* or listed later (add / add_weighted), or listed with a higher rank (ranked_add*).
Prefers(c, a, b) ==
    /\ a \in Named(c)
    /\ \/ b \notin Named(c)
       \/ \E i, j \in DOMAIN c.vote : c.vote[i] = a /\ c.vote[j] = b /\ i < j
       \/ \E i, j \in DOMAIN c.rvote :
             c.rvote[i][1] = a /\ c.rvote[j][1] = b /\ c.rvote[i][2] < c.rvote[j][2]

\* The table entry of the ordered pair of candidates (a, b); an absent entry reads zero.
Entry(cs, rt, a, b) == Count(rt, <<cs[a], cs[b]>>)

\* ------------------------------------------------------------- C1
\* C1: across add_candidate / add_candidates calls every registered candidate keeps the
\* id it was first given, and the candidate-to-id map is a bijection onto {0, ..., n-1},
\* n the number of registered candidates.
C1_IdsStableAndDense ==
    [][/\ \A c \in DOMAIN candidates :
             c \in DOMAIN candidates' /\ candidates'[c] = candidates[c]
       /\ \A c, d \in DOMAIN candidates' : candidates'[c] = candidates'[d] => c = d
       /\ {candidates'[c] : c \in DOMAIN candidates'} = 0..(Cardinality(DOMAIN candidates') - 1)]_vars

C3_DuplicateAlwaysReported ==
    [][(check_votes /\ call'.op \in BallotOps /\ HasDuplicate(call')) =>
          /\ ret' = "VoteHasDuplicateCandidates"
          /\ running_total' = running_total
          /\ candidates' = candidates]_vars

\* C3 (amended): on a checked tally a ballot listing a candidate more than once is
\* rejected and leaves table and candidate map unchanged; the error is the
\* duplicate-candidate error when every candidate of the ballot is registered, and
\* UnknownCandidate when the ballot also names an unregistered candidate.
C3_DuplicateRejected ==
    [][(check_votes /\ call'.op \in BallotOps /\ HasDuplicate(call')) =>
          /\ ret' = IF Named(call') \subseteq DOMAIN candidates
                    THEN "VoteHasDuplicateCandidates" ELSE "UnknownCandidate"
          /\ running_total' = running_total
          /\ candidates' = candidates]_vars

C3_Witness ==
    /\ check_votes
    /\ call.op \in BallotOps
    /\ HasDuplicate(call)
    /\ ret = "VoteHasDuplicateCandidates"
    /\ running_total # EmptyMap

\* ------------------------------------------------------------- C4
\* C4: on a checked tally built with with_candidates, a ballot naming a candidate that
\* is not registered returns UnknownCandidate and leaves table and candidate map unchanged.
C4_UnknownRejected ==
    [][(ctor = "with_candidates" /\ check_votes /\ call'.op \in BallotOps
          /\ ~(Named(call') \subseteq DOMAIN candidates)) =>
          /\ ret' = "UnknownCandidate"
          /\ running_total' = running_total
          /\ candidates' = candidates]_vars

C4_Witness ==
    /\ ctor = "with_candidates"
    /\ check_votes
    /\ call.op \in BallotOps
    /\ Named(call) \cap DOMAIN candidates # {}
    /\ ~(Named(call) \subseteq DOMAIN candidates)
    /\ ret = "UnknownCandidate"
    /\ running_total # EmptyMap

\* ------------------------------------------------------------- C5
\* C5: after a successful ballot call with weight w, for every ordered pair of distinct
\* registered candidates (a, b) the entry (a, b) has grown by exactly w if the ballot
\* strictly prefers a to b, and is unchanged otherwise.
C5_ExactIncrements ==
    [][(call'.op \in BallotOps /\ ret' = "Ok" /\ ~HasDuplicate(call')) =>
          \A a, b \in DOMAIN candidates :
             a # b =>
                Entry(candidates, running_total', a, b)
                   = Entry(candidates, running_total, a, b)
                        + (IF Prefers(call', a, b) THEN call'.weight ELSE 0)]_vars

C7_NoSelfPair == \A k \in DOMAIN running_total : k[1] # k[2]

\* ------------------------------------------------------------- C8
\* C8: build_graph returns a graph with exactly one node per registered candidate and,
\* for every table key (i, j) with count(i->j) >= count(j->i), exactly one edge from j's
\* node to i's node labeled (count(i->j), count(j->i)), and no other edge.
C8_GraphOfTable ==
    (call.op = "build_graph") =>
        /\ ret = "Value"
        /\ result.nodes = DOMAIN candidates
        /\ \A k \in DOMAIN running_total :
              running_total[k] >= Count(running_total, <<k[2], k[1]>>) =>
                 Cardinality({e \in result.edges :
                                /\ candidates[e.to] = k[1]
                                /\ candidates[e.from] = k[2]
                                /\ e.label = <<running_total[k],
                                               Count(running_total, <<k[2], k[1]>>)>>}) = 1
        /\ \A e \in result.edges :
              /\ e.label[1] >= e.label[2]
              /\ <<candidates[e.to], candidates[e.from]>> \in DOMAIN running_total
              /\ e.label = <<running_total[<<candidates[e.to], candidates[e.from]>>],
                             Count(running_total, <<candidates[e.from], candidates[e.to]>>)>>

\* ------------------------------------------------------------- C9
\* C9: in a graph returned by build_graph (here: from a table without negative counts),
\* two candidates with distinct ids and a table key in either direction are joined
\* either by exactly one edge, their counts differing, or by exactly two edges, one in
\* each direction, their counts equal.
C9_OneEdgeOrTiedPair ==
    (call.op = "build_graph" /\ ret = "Value"
        /\ \A k \in DOMAIN running_total : running_total[k] >= 0) =>
        \A a, b \in DOMAIN candidates :
           (/\ candidates[a] # candidates[b]
            /\ \/ <<candidates[a], candidates[b]>> \in DOMAIN running_total
               \/ <<candidates[b], candidates[a]>> \in DOMAIN running_total) =>
              LET ab == {e \in result.edges : e.from = a /\ e.to = b}
                  ba == {e \in result.edges : e.from = b /\ e.to = a}
                  tied == Entry(candidates, running_total, a, b)
                             = Entry(candidates, running_total, b, a)
              IN  \/ Cardinality(ab) + Cardinality(ba) = 1 /\ ~tied
                  \/ Cardinality(ab) = 1 /\ Cardinality(ba) = 1 /\ tied

\* ------------------------------------------------------------- C10
\* C10: if a registered candidate x has count(x->y) > count(y->x) for every other
\* registered candidate y, ranked() gives rank 0 to x and to x alone.
C10_CondorcetWinnerAlone ==
    (call.op = "ranked") =>
        \A x \in DOMAIN candidates :
           (/\ DOMAIN candidates # {x}
            /\ \A y \in DOMAIN candidates \ {x} :
                  Entry(candidates, running_total, x, y)
                     > Entry(candidates, running_total, y, x)) =>
              /\ ret = "Value"
              /\ {result.ranked[i][1] : i \in {j \in DOMAIN result.ranked :
                                                  result.ranked[j][2] = 0}} = {x}

\* ------------------------------------------------------------- reading a RankedWinners
WinnerOps == {"from_ranked", "into_ranked"}

\* The candidates a RankedWinners holds.
WinnerSet(w) == {w.winners[i][1] : i \in DOMAIN w.winners}

\* The list the winners were built from, as (candidate, key) pairs, a smaller key being a
\* better place: the rank for from_ranked, the negated count for into_ranked.
GroupedInput ==
    IF call.op = "from_ranked"
    THEN {result.ranked[i] : i \in DOMAIN result.ranked}
    ELSE {<<result.counted[i][1], 0 - result.counted[i][2]>> : i \in DOMAIN result.counted}

Group(inp, e) == {d \in inp : d[2] = e[2]}
Better(inp, e) == {d \in inp : d[2] < e[2]}

\* The rank group of e holds the n-th position of the ranking and the (n+1)-th as well.
Spans(inp, e, n) ==
    /\ Cardinality(Better(inp, e)) < n
    /\ n + 1 <= Cardinality(Better(inp, e)) + Cardinality(Group(inp, e))

\* No rank group is included only in part.
WholeGroups(inp, w) ==
    \A e \in inp : e[1] \in WinnerSet(w) => \A d \in Group(inp, e) : d[1] \in WinnerSet(w)

\* The overflow rule for the requested count n.
OverflowRule(inp, w, n) ==
    IF \E e \in inp : Spans(inp, e, n)
    THEN /\ Len(w.winners) > n
         /\ check_overflow(w)
         /\ \A e \in inp : Spans(inp, e, n) => \A d \in Group(inp, e) : d[1] \in WinnerSet(w)
    ELSE /\ Len(w.winners) = Min(n, Cardinality(inp))
         /\ ~check_overflow(w)

\* ------------------------------------------------------------- C13
\* C13 (as claimed): for winners built by from_ranked or into_ranked with requested count
\* N: if the rank group holding the N-th position also holds the (N+1)-th, then
\* len() > N, check_overflow() is true and the whole group is included; otherwise
\* len() = min(N, number of candidates) and check_overflow() is false; no rank group is
\* included only in part.
C13_OverflowRule ==
    (call.op \in WinnerOps) =>
        /\ OverflowRule(GroupedInput, result.winners, result.winners.num_winners)
        /\ WholeGroups(GroupedInput, result.winners)

\* C13 (amended): the rule holds for every requested count N >= 1. For N = 0
\* from_ranked returns exactly the first rank group and into_ranked returns every
\* candidate, and check_overflow() is true whenever the result is not empty; no rank
\* group is ever included only in part.
C13_OverflowRuleFromOne ==
    (call.op \in WinnerOps) =>
        LET inp == GroupedInput
            w == result.winners
        IN  /\ w.num_winners >= 1 => OverflowRule(inp, w, w.num_winners)
            /\ (w.num_winners = 0 /\ call.op = "from_ranked") =>
                   WinnerSet(w) = {e[1] : e \in {d \in inp : Better(inp, d) = {}}}
            /\ (w.num_winners = 0 /\ call.op = "into_ranked") =>
                   WinnerSet(w) = {e[1] : e \in inp}
            /\ w.num_winners = 0 => (check_overflow(w) <=> w.winners # <<>>)
            /\ Len(w.winners) = Cardinality(WinnerSet(w))
            /\ WholeGroups(inp, w)

C13_Witness ==
    /\ call.op = "from_ranked"
    /\ result.winners.num_winners = 2
    /\ Len(result.ranked) = 3
    /\ result.ranked[1][2] = 0
    /\ result.ranked[2][2] = 1
    /\ result.ranked[3][2] = 1
    /\ Len(result.winners.winners) = 3
    /\ check_overflow(result.winners)

\* ------------------------------------------------------------- reading a ranking
\* a beats b: the table counts more ballots for a over b than for b over a
Beats(a, b) == Entry(candidates, running_total, a, b) > Entry(candidates, running_total, b, a)

\* a beats b, b beats c and c beats a, the three winning counts equal and the three
\* losing counts equal
EqualCycle(a, b, c) ==
    /\ Beats(a, b) /\ Beats(b, c) /\ Beats(c, a)
    /\ Entry(candidates, running_total, a, b) = Entry(candidates, running_total, b, c)
    /\ Entry(candidates, running_total, b, c) = Entry(candidates, running_total, c, a)
    /\ Entry(candidates, running_total, b, a) = Entry(candidates, running_total, c, b)
    /\ Entry(candidates, running_total, c, b) = Entry(candidates, running_total, a, c)

\* The ranks a returned list gives, as (candidate, rank) pairs.
RankSet(list) == {list[i] : i \in DOMAIN list}

Ranks(list) == {list[i][2] : i \in DOMAIN list}

\* ------------------------------------------------------------- C11
\* C11: on a CondorcetTally of three candidates whose pairwise counts form a cycle of
\* equal magnitude (a beats b, b beats c, c beats a), ranked() gives all three rank 0,
\* and winners() with num_winners = 2 returns all three, check_overflow() is true and
\* overflow() lists all three.
C11_CycleAllTied ==
    (/\ variant = "None"
     /\ call.op \in {"ranked", "winners"}
     /\ \E a, b, c \in DOMAIN candidates : EqualCycle(a, b, c)) =>
        /\ ret = "Value"
        /\ RankSet(result.ranked) = {<<c, 0>> : c \in DOMAIN candidates}
        /\ (call.op = "winners" /\ num_winners = 2) =>
              /\ WinnerSet(result.winners) = DOMAIN candidates
              /\ check_overflow(result.winners)
              /\ overflow(result.winners).some
              /\ RankSet(overflow(result.winners).list) = {<<c, 0>> : c \in DOMAIN candidates}

\* ------------------------------------------------------------- C12
\* C12: the ranks in the output of ranked() and of winners(), of a CondorcetTally or a
\* SchulzeTally, are exactly {0, 1, ..., k} for some k <= (number of registered
\* candidates - 1): rank 0 is there whenever the output is not empty, and no rank is
\* skipped.
C12_RanksContiguous ==
    (call.op \in {"ranked", "winners"} /\ ret = "Value") =>
        LET rs == Ranks(IF call.op = "ranked" THEN result.ranked ELSE result.winners.winners)
        IN  /\ rs = 0..(Cardinality(rs) - 1)
            /\ Cardinality(rs) <= Cardinality(DOMAIN candidates)

C12_Witness ==
    /\ call.op = "winners"
    /\ ret = "Value"
    /\ variant = "None"
    /\ ballots = MaxRankBallots
    /\ Ranks(result.winners.winners) = {0, 1}
    /\ Len(result.winners.winners) = 3

\* ------------------------------------------------------------- C14
\* C14: from_ranked(list, 0) includes every candidate of the ranked list (so that
\* CondorcetTally::winners(), which is from_ranked(self.ranked(), num_winners), returns
\* the full ranking of a tally created with num_winners = 0).
C14_ZeroMeansAll ==
    (call.op = "from_ranked" /\ result.winners.num_winners = 0) =>
        RankSet(result.winners.winners) = RankSet(result.ranked)

\* ------------------------------------------------------------- C17
\* C17: the rank ranked() gives each candidate of a CondorcetTally is determined by the
\* accepted ballots alone, that is by the table they add up to: whatever the iteration
\* order of the candidate map and of the count map, every candidate gets the rank that
\* was returned.
C17_RanksFromBallotsAlone ==
    (variant = "None" /\ call.op = "ranked" /\ ret = "Value") =>
        \A ord \in Orders3 :
           LET g == build_graph(candidates, running_total, ord)
           IN  \A eo \in EdgeOrders3 : RankSet(ranked_in(g, ord, eo)) = RankSet(result.ranked)

C18_RatioNeedsFraction ==
    /\ (ctor # "none" /\ variant = "Ratio") => (count_type.fraction /\ count_type.bounded)
    /\ ctor = "none" => (candidates = EmptyMap /\ running_total = EmptyMap /\ ballots = 0
                            /\ call.op \notin BallotOps \cup QueryOps)
    /\ call.op \in {"new", "with_candidates"} =>
          IF call.vote[1] = "Ratio" /\ ~(count_type.fraction /\ count_type.bounded)
          THEN ret = "Panic" /\ ctor = "none" /\ result = NoResult
          ELSE /\ ret = "Value"
               /\ ctor = call.op
               /\ variant = call.vote[1]
               /\ num_winners = call.weight
               /\ candidates = add_candidates(EmptyMap, call.cands)

C18_Witness ==
    /\ call.op = "with_candidates"
    /\ call.vote = <<"Ratio">>
    /\ call.cands = <<"A", "B">>
    /\ count_type = IntegerType
    /\ ret = "Panic"
    /\ ctor = "none"

C19_Tennessee ==
    ballots = Len(TennesseeProgram) =>
        /\ call.op = "totals" =>
              /\ ret = "Value"
              /\ result.totals =
                    {<<"Memphis", "Nashville", 42>>, <<"Nashville", "Memphis", 58>>,
                     <<"Memphis", "Chattanooga", 42>>, <<"Chattanooga", "Memphis", 58>>,
                     <<"Memphis", "Knoxville", 42>>, <<"Knoxville", "Memphis", 58>>,
                     <<"Nashville", "Chattanooga", 68>>, <<"Chattanooga", "Nashville", 32>>,
                     <<"Nashville", "Knoxville", 68>>, <<"Knoxville", "Nashville", 32>>,
                     <<"Chattanooga", "Knoxville", 83>>, <<"Knoxville", "Chattanooga", 17>>}
        /\ call.op = "winners" =>
              /\ ret = "Value"
              /\ result.winners.winners =
                    <<<<"Nashville", 0>>, <<"Chattanooga", 1>>, <<"Knoxville", 2>>,
                      <<"Memphis", 3>>>>
        /\ call.op = "candidates" =>
              result.cands = {"Memphis", "Nashville", "Chattanooga", "Knoxville"}

C19_Witness ==
    /\ call.op = "winners"
    /\ ballots = 4
    /\ num_winners = 4
    /\ ret = "Value"
    /\ Len(result.winners.winners) = 4
    /\ Entry(candidates, running_total, "Nashville", "Chattanooga") = 68

\* ------------------------------------------------------------- C20
\* C20: after the eight weighted ballots of the Schulze example (Variant::Winning),
\* strongest_paths() is exactly the twenty strengths of the test and ranked() is E 0, A 1,
\* C 2, B 3, D 4.
C20_Wikipedia ==
    ballots = Len(WikipediaProgram) =>
        /\ call.op = "strongest_paths" =>
              /\ ret = "Value"
              /\ result.paths =
                    {<<"A", "B", 28>>, <<"A", "C", 28>>, <<"A", "D", 30>>, <<"A", "E", 24>>,
                     <<"B", "A", 25>>, <<"B", "C", 28>>, <<"B", "D", 33>>, <<"B", "E", 24>>,
                     <<"C", "A", 25>>, <<"C", "B", 29>>, <<"C", "D", 29>>, <<"C", "E", 24>>,
                     <<"D", "A", 25>>, <<"D", "B", 28>>, <<"D", "C", 28>>, <<"D", "E", 24>>,
                     <<"E", "A", 25>>, <<"E", "B", 28>>, <<"E", "C", 28>>, <<"E", "D", 31>>}
        /\ call.op = "ranked" =>
              /\ ret = "Value"
              /\ result.ranked = <<<<"E", 0>>, <<"A", 1>>, <<"C", 2>>, <<"B", 3>>, <<"D", 4>>>>
        /\ call.op = "totals" =>
              result.totals =
                    {<<"A", "B", 20>>, <<"A", "C", 26>>, <<"A", "D", 30>>, <<"A", "E", 22>>,
                     <<"B", "A", 25>>, <<"B", "C", 16>>, <<"B", "D", 33>>, <<"B", "E", 18>>,
                     <<"C", "A", 19>>, <<"C", "B", 29>>, <<"C", "D", 17>>, <<"C", "E", 24>>,
                     <<"D", "A", 15>>, <<"D", "B", 12>>, <<"D", "C", 28>>, <<"D", "E", 14>>,
                     <<"E", "A", 23>>, <<"E", "B", 27>>, <<"E", "C", 21>>, <<"E", "D", 31>>}

C20_Witness ==
    /\ call.op = "ranked"
    /\ variant = "Winning"
    /\ ballots = 8
    /\ ret = "Value"
    /\ Len(result.ranked) = 5
    /\ Entry(candidates, running_total, "E", "D") = 31

\* ------------------------------------------------------------- C21
\* C21: in the graph build_graph returns, every edge leads from the more preferred
\* candidate to the less preferred one: an edge from x to y labeled (s, o) has s the count
\* of x over y, o the count of y over x, and s >= o; two equally preferred candidates are
\* joined by two edges, one in each direction.
C21_EdgesFromPreferred ==
    (call.op = "build_graph" /\ ret = "Value") =>
        /\ \A e \in result.edges :
              /\ e.label[1] = Entry(candidates, running_total, e.from, e.to)
              /\ e.label[2] = Entry(candidates, running_total, e.to, e.from)
              /\ e.label[1] >= e.label[2]
        /\ \A a, b \in DOMAIN candidates :
              (a # b /\ Entry(candidates, running_total, a, b)
                           = Entry(candidates, running_total, b, a)) =>
                 /\ \E e \in result.edges : e.from = a /\ e.to = b
                 /\ \E e \in result.edges : e.from = b /\ e.to = a

\* The rank the returned list gives the candidate c.
RankOf(list, c) == list[CHOOSE i \in DOMAIN list : list[i][1] = c][2]

\* ------------------------------------------------------------- C22
\* C22: in CondorcetTally::ranked() the components are ranked from most to least
\* dominant: whenever count(i->j) > count(j->i), rank(i) <= rank(j); and two candidates
\* have the same rank exactly when each is reachable from the other in the graph.
C22_DominantFirst ==
    (call.op = "ranked" /\ ret = "Value" /\ variant = "None") =>
        LET g == build_graph(candidates, running_total, order)
        IN  \A i, j \in DOMAIN candidates :
               /\ Beats(i, j) => RankOf(result.ranked, i) <= RankOf(result.ranked, j)
               /\ (RankOf(result.ranked, i) = RankOf(result.ranked, j)) <=> SameScc(g, i, j)

\* ------------------------------------------------------------- reading rank 0
\* the candidates the returned list gives rank 0
RankZero(list) == {list[i][1] : i \in {n \in DOMAIN list : list[n][2] = 0}}

\* every member of S has count(s->y) >= count(y->s) against every candidate y outside S
Dominating(S) ==
    \A s \in S, y \in DOMAIN candidates \ S :
        Entry(candidates, running_total, s, y) >= Entry(candidates, running_total, y, s)

\* every member of S has count(s->y) > count(y->s) against every candidate y outside S
StrictlyDominating(S) == \A s \in S, y \in DOMAIN candidates \ S : Beats(s, y)

NonNegativeTable == \A k \in DOMAIN running_total : running_total[k] >= 0

\* both entries of every pair of distinct candidates are stored
CompleteTable ==
    \A a, b \in DOMAIN candidates :
        a # b => <<candidates[a], candidates[b]>> \in DOMAIN running_total

LinkOf(var, x, y) ==
    IF Beats(x, y)
    THEN IF var = "Winning" THEN Entry(candidates, running_total, x, y)
         ELSE Entry(candidates, running_total, x, y) - Entry(candidates, running_total, y, x)
    ELSE 0

\* the simple paths over four candidates: two to four distinct candidates in a row
SimplePaths ==
    {s \in UNION {[1..n -> {"A", "B", "C", "D"}] : n \in 2..4} :
        \A a, b \in DOMAIN s : a # b => s[a] # s[b]}

MinOfSet(S) == CHOOSE x \in S : \A y \in S : x <= y

\* the weakest link of the path s
Width(var, s) == MinOfSet({LinkOf(var, s[n], s[n + 1]) : n \in 1..(Len(s) - 1)})

\* the widths of the simple paths from j to k of at most n candidates
Widths(var, j, k, n) ==
    {Width(var, s) : s \in {t \in SimplePaths :
                                /\ Len(t) <= n /\ t[1] = j /\ t[Len(t)] = k
                                /\ \A m \in DOMAIN t : t[m] \in DOMAIN candidates}}

\* the strength the returned list gives the pair (j, k)
PathOf(paths, j, k) == (CHOOSE t \in paths : t[1] = j /\ t[2] = k)[3]

\* ------------------------------------------------------------- C24
\* C24: strongest_paths() gives every ordered pair (j, k) of distinct candidates the
\* maximum over the simple paths from j to k of the weakest link on the path (a link
\* x -> y is count(x->y) for Winning, the margin for Margin, when x beats y, and zero
\* otherwise), and the table it returns is closed: relaxing once more changes no entry.
C24_StrongestPathsAreWidest ==
    (call.op = "strongest_paths" /\ ret = "Value") =>
        LET cs == DOMAIN candidates
        IN  /\ {<<t[1], t[2]>> : t \in result.paths} = {x \in cs \X cs : x[1] # x[2]}
            /\ Cardinality(result.paths) = Cardinality(cs) * (Cardinality(cs) - 1)
            /\ \A t \in result.paths :
                  t[3] = MaxOf(Widths(variant, t[1], t[2], Cardinality(cs)))
            /\ \A i, j, k \in cs :
                  (i # j /\ i # k /\ j # k) =>
                     PathOf(result.paths, j, k) >=
                        Min(PathOf(result.paths, j, i), PathOf(result.paths, i, k))

\* some pair owes its strength to a path through both other candidates
C24_Witness ==
    /\ call.op = "strongest_paths"
    /\ ret = "Value"
    /\ DOMAIN candidates = {"A", "B", "C", "D"}
    /\ \E t \in result.paths : t[3] > MaxOf(Widths(variant, t[1], t[2], 3))


\* the strongest paths as strongest_paths() computes them in the current state
StrongestNow == strongest_paths(candidates, running_total, variant, order)

\* ------------------------------------------------------------- C25
\* C25: in SchulzeTally::ranked(), whenever the strongest path from i to j is stronger
\* than the one from j to i, i gets a strictly lower rank than j.
C25_StrongerPathRanksLower ==
    (call.op = "ranked" /\ ret = "Value" /\ variant # "None") =>
        \A p \in {StrongestNow} :
            \A i, j \in DOMAIN candidates :
                (i # j /\ PathOf(p, i, j) > PathOf(p, j, i)) =>
                    RankOf(result.ranked, i) < RankOf(result.ranked, j)

\* A's strongest path to D wins although A does not beat D
C25_Witness ==
    /\ call.op = "ranked"
    /\ ret = "Value"
    /\ variant = "Winning"
    /\ DOMAIN candidates = {"A", "B", "C", "D"}
    /\ PathOf(StrongestNow, "A", "D") > PathOf(StrongestNow, "D", "A")
    /\ ~Beats("A", "D")
    /\ RankOf(result.ranked, "A") < RankOf(result.ranked, "D")

\* ------------------------------------------------------------- C26
\* C26: in SchulzeTally::ranked(), two candidates whose strongest paths to each other are
\* equally strong get the same rank.
C26_EqualPathsTied ==
    (call.op = "ranked" /\ ret = "Value" /\ variant # "None") =>
        \A p \in {StrongestNow} :
            \A i, j \in DOMAIN candidates :
                (i # j /\ PathOf(p, i, j) = PathOf(p, j, i)) =>
                    RankOf(result.ranked, i) = RankOf(result.ranked, j)

\* the number of candidates k whose strongest path from i is at least as strong as the
\* path back, in the table p
WinCount(p, i) ==
    Cardinality({k \in DOMAIN candidates \ {i} : PathOf(p, i, k) >= PathOf(p, k, i)})

\* C26 (amended): SchulzeTally::ranked() orders the candidates by the number of
\* candidates k with p[i][k] >= p[k][i]: a greater number gives a strictly lower rank and
\* equal numbers give the same rank. Two candidates with p[i][j] = p[j][i] count each
\* other, and get the same rank only if their numbers are equal.
C26_EqualCountsTied ==
    (call.op = "ranked" /\ ret = "Value" /\ variant # "None") =>
        \A p \in {StrongestNow} :
            \A i, j \in DOMAIN candidates :
                /\ (WinCount(p, i) = WinCount(p, j)) <=>
                      (RankOf(result.ranked, i) = RankOf(result.ranked, j))
                /\ (WinCount(p, i) > WinCount(p, j)) <=>
                      (RankOf(result.ranked, i) < RankOf(result.ranked, j))

\* B's paths tie with A's and with C's, A's path to C is the stronger one: B shares
\* rank 0 with A, and C is behind both
C26_Witness ==
    /\ call.op = "ranked"
    /\ ret = "Value"
    /\ variant = "Winning"
    /\ PathOf(StrongestNow, "A", "B") = PathOf(StrongestNow, "B", "A")
    /\ PathOf(StrongestNow, "B", "C") = PathOf(StrongestNow, "C", "B")
    /\ PathOf(StrongestNow, "A", "C") > PathOf(StrongestNow, "C", "A")
    /\ RankOf(result.ranked, "A") = RankOf(result.ranked, "B")
    /\ RankOf(result.ranked, "B") < RankOf(result.ranked, "C")

\* ------------------------------------------------------------- C27
\* C27: for every ballot v without duplicates and every weight w, add_weighted(v, w)
\* changes the pairwise table exactly as ranked_add_weighted of the ballot
\* [(v[0], 0), (v[1], 1), ...] with the weight w would, also for the empty ballot and for
\* ballots that omit registered candidates.
C27_AddIsRankedAdd ==
    [][(call'.op \in {"add", "add_weighted"} /\ ~HasDuplicate(call')) =>
          LET rv == ParsedVote_into_ranked(call'.vote)
              checked == IF check_votes THEN check_ranked_vote(candidates, rv) ELSE "Ok"
          IN  IF checked = "Ok"
              THEN /\ ret' = "Ok"
                   /\ \A ord \in Orders(DOMAIN candidates) :
                         running_total' =
                            add_ranked_candidate_ids(running_total,
                               ranked_mapped_candidates(candidates, rv, ord), call'.weight)
              ELSE /\ ret' = checked
                   /\ running_total' = running_total]_vars

\* a ballot that omits the registered candidate B has been counted
C27_Witness ==
    /\ call.op = "add_weighted"
    /\ call.vote = <<"A">>
    /\ call.weight = 1
    /\ ret = "Ok"
    /\ DOMAIN candidates = {"A", "B"}
    /\ candidates["A"] # candidates["B"]
    /\ Entry(candidates, running_total, "A", "B") = 2

\* ------------------------------------------------------------- C28
\* C28: ranked() lists every registered candidate exactly once and nothing else, for any
\* number of registered candidates (including exactly one) and any accepted ballots.
C28_RankedListsAll ==
    (call.op = "ranked" /\ ret = "Value") =>
        /\ {result.ranked[k][1] : k \in DOMAIN result.ranked} = DOMAIN candidates
        /\ Len(result.ranked) = Cardinality(DOMAIN candidates)

\* ------------------------------------------------------------- C29
\* C29: on the STV tally, winners() leaves running_total unchanged, and a second winners()
\* with no add in between returns the same ranked winners as the first.
C29_WinnersIdempotent ==
    [][call'.op = "winners" =>
          /\ running_total' = running_total
          /\ call.op = "winners" => result'.winners = result.winners]_vars

\* ------------------------------------------------------------- C30
\* C30: in the output of the IRV tally_ranked() the last-surviving candidates have rank 0
\* and the ranks present are {0, ..., k}, also when several candidates are eliminated in
\* the same round; tally_winners() returns its winner with rank 0.
C30_RanksStartAtZero ==
    /\ (call.op = "tally_ranked" /\ result.ranked # <<>>) =>
          /\ result.ranked[1][2] = 0
          /\ \E k \in 0..Len(result.ranked) :
                {result.ranked[i][2] : i \in DOMAIN result.ranked} = 0..k
    /\ (call.op = "tally_winners" /\ result.winners.winners # <<>>) =>
          result.winners.winners[1][2] = 0
====
